---- MODULE Spec2Model ----
(***************************************************************************)
(* Model of src/main.py: the d20 crafting-check simulation.                *)
(*                                                                         *)
(*   roll        -> randint, roll                                          *)
(*   make_checks -> make_checks                                            *)
(*   craft       -> CheckSuccess, CheckFailure, Recurse                    *)
(*                                                                         *)
(* craft draws ROLL_CHUNK check results with one call of make_checks and   *)
(* iterates over them.  The draws of np.random.randint are independent     *)
(* of each other and of the program's state, and an element of the batch   *)
(* is read only by the loop iteration that consumes it, so the model       *)
(* draws the element when the iteration reads it: idx is the position of   *)
(* the loop in the current batch, and the elements behind idx + 1 have no  *)
(* value yet.  Every iteration of the loop is one step.                    *)
(***************************************************************************)
EXTENDS Integers, Sequences, FiniteSets, TLC

VARIABLES
    dc,                 \* craft's argument dc
    modifier,           \* craft's argument modifier
    successes_required, \* craft's argument successes_required
    chunk,              \* craft's local ROLL_CHUNK, the length of a batch
    pc,                 \* "loop": in the for loop of some frame; "done": returned;
                        \* "idle": between two calls made by __main__ (SpecMain);
                        \* "checks", "checked": before and after make_checks (SpecChecks)
    n_successes,        \* craft's local n_successes (innermost frame)
    n_consec_fails,     \* craft's local n_consec_fails (innermost frame)
    idx,                \* number of elements of the current batch consumed
    depth,              \* number of recursive calls of craft made so far
    ret,                \* "none" until craft returns, then "True" or "False"
    consumed,           \* history: number of check results consumed so far
    recent,             \* history: the last (up to three) consumed check results
    sim,                \* the same check results fed to a loop without batches
    number,             \* make_checks' argument number (SpecChecks)
    rolled,             \* the array returned by roll inside make_checks (SpecChecks)
    checks,             \* the array returned by make_checks (SpecChecks)
    n_repeats,          \* __main__'s n_repeats (SpecMain)
    repeated_craft,     \* __main__'s list repeated_craft, as far as it is built
    mpc,                \* __main__'s position: "none" (craft called on its own),
                        \* "comprehension", "printed", "ZeroDivisionError"
    printed,            \* <<>>, or <<p>> once "percent failure:p" is printed
    n_calls,            \* history: number of calls of craft made by __main__
    n_failures          \* history: number of those calls that returned False

mainvars == <<n_repeats, repeated_craft, mpc, printed, n_calls, n_failures>>

vars == <<dc, modifier, successes_required, chunk, pc, n_successes,
          n_consec_fails, idx, depth, ret, consumed, recent, sim,
          number, rolled, checks, mainvars>>

-----------------------------------------------------------------------------
(* Program constants *)

ROLL_CHUNK == 100

D20 == 20

FAIL_LIMIT == 3

(* Bounds of the model *)

MaxNegRequired == 1

MaxRequired == 5

MaxChecks == 310

MaxChunk == 3

MaxNumber == 2

MaxNegCheckDC == 2

MaxCheckDC == 24

MaxCheckModifier == 3

-----------------------------------------------------------------------------
(* Inputs *)

DCs == {1, 11, 18, 21}

Modifiers == {0, 9, 11}

AllSucceed(d, m) == d <= m + 1

AllFail(d, m) == d > m + D20

\* The smallest successes_required for which a batch of ROLL_CHUNK checks
\* can be exhausted, and one above the batch size (only where every check
\* succeeds, to keep the state space small).
Requireds(d, m) ==
    ((0 - MaxNegRequired)..MaxRequired)
        \cup {(ROLL_CHUNK \div FAIL_LIMIT) + 1}
        \cup (IF AllSucceed(d, m) THEN {ROLL_CHUNK + 1} ELSE {})

BatchSizes == (1..MaxChunk) \cup {ROLL_CHUNK}

-----------------------------------------------------------------------------
(* roll and make_checks *)

\* randint with the upper end included
randint_closed(low, high) == low..high

\* np.random.randint(low, high): an integer of the half-open range [low, high)
randint(low, high) == low..(high - 1)

\* roll(die, number): the arrays roll can return
roll(die, n) == [1..n -> randint(1, die + 1)]

\* make_checks with a strict comparison
make_checks_strict(a, d, m) == [i \in DOMAIN a |-> a[i] + m > d]

\* make_checks, given the array a that its call of roll returned
make_checks(a, d, m) == [i \in DOMAIN a |-> a[i] + m >= d]

-----------------------------------------------------------------------------
(* craft *)

\* the success branch without the reset of the fail counter
Success_noreset(s, f) == [s |-> s + 1, f |-> f]

\* the branch of a successful check: lines 58-59
Success(s, f) == [s |-> s + 1, f |-> 0]

\* the branch of a failed check: line 63
Failure(s, f) == [s |-> s, f |-> f + 1]

\* line 60 with a strict comparison
Crafted_strict(s, req) == s > req

\* line 60
Crafted(s, req) == s >= req

\* line 64 with a strict comparison
Botched_strict(f) == f > FAIL_LIMIT

\* line 64
Botched(f) == f >= FAIL_LIMIT

\* a recursive call that leaves n_consec_fails at its default
Carry_nostreak(s, f) == [s |-> s, f |-> 0]

\* the counters handed to the recursive call: lines 71-72
Carry(s, f) == [s |-> s, f |-> f]

Last3(q) == IF Len(q) <= 3 THEN q ELSE SubSeq(q, Len(q) - 2, Len(q))

\* the loop of craft with a fresh check per iteration and no batches
SimStep(st, result) ==
    IF st.ret # "none" THEN st
    ELSE IF result
         THEN [s |-> st.s + 1, f |-> 0, n |-> st.n + 1,
               ret |-> IF st.s + 1 >= successes_required THEN "True" ELSE "none"]
         ELSE [s |-> st.s, f |-> st.f + 1, n |-> st.n + 1,
               ret |-> IF st.f + 1 >= 3 THEN "False" ELSE "none"]

Consume(result) ==
    /\ idx' = idx + 1
    /\ consumed' = consumed + 1
    /\ recent' = Last3(Append(recent, result))
    /\ sim' = SimStep(sim, result)

\* craft is called on its own: no __main__
NoMain ==
    /\ n_repeats = 0
    /\ repeated_craft = <<>>
    /\ mpc = "none"
    /\ printed = <<>>
    /\ n_calls = 0
    /\ n_failures = 0

FreshSim == [s |-> 0, f |-> 0, n |-> 0, ret |-> "none"]

InitCraft ==
    /\ NoMain
    /\ dc \in DCs
    /\ modifier \in Modifiers
    /\ successes_required \in Requireds(dc, modifier)
    /\ pc = "loop"
    /\ n_successes = 0
    /\ n_consec_fails = 0
    /\ idx = 0
    /\ depth = 0
    /\ ret = "none"
    /\ consumed = 0
    /\ recent = <<>>
    /\ sim = [s |-> 0, f |-> 0, n |-> 0, ret |-> "none"]
    /\ number = 0
    /\ rolled = <<>>
    /\ checks = <<>>

Init ==
    /\ chunk = ROLL_CHUNK
    /\ InitCraft

\* one iteration of the for loop whose result is True: lines 56-61
CheckSuccess ==
    /\ pc = "loop"
    /\ idx < chunk
    /\ consumed < MaxChecks
    /\ \E r \in randint(1, D20 + 1) :
          /\ make_checks(<<r>>, dc, modifier)[1]
          /\ LET st == Success(n_successes, n_consec_fails) IN
                /\ n_successes' = st.s
                /\ n_consec_fails' = st.f
                /\ IF Crafted(st.s, successes_required)
                   THEN pc' = "done" /\ ret' = "True"
                   ELSE pc' = "loop" /\ ret' = ret
    /\ Consume(TRUE)
    /\ UNCHANGED <<dc, modifier, successes_required, chunk, depth,
                   number, rolled, checks, mainvars>>

\* one iteration of the for loop whose result is False: lines 56, 62-65
CheckFailure ==
    /\ pc = "loop"
    /\ idx < chunk
    /\ consumed < MaxChecks
    /\ \E r \in randint(1, D20 + 1) :
          /\ ~ make_checks(<<r>>, dc, modifier)[1]
          /\ LET st == Failure(n_successes, n_consec_fails) IN
                /\ n_successes' = st.s
                /\ n_consec_fails' = st.f
                /\ IF Botched(st.f)
                   THEN pc' = "done" /\ ret' = "False"
                   ELSE pc' = "loop" /\ ret' = ret
    /\ Consume(FALSE)
    /\ UNCHANGED <<dc, modifier, successes_required, chunk, depth,
                   number, rolled, checks, mainvars>>

\* the recursive call without its return: the outer frame falls off the end
\* of craft and returns None, whatever the inner call computed
Recurse_noreturn ==
    /\ pc = "loop"
    /\ idx = chunk
    /\ pc' = "done"
    /\ ret' = "none"
    /\ UNCHANGED <<dc, modifier, successes_required, chunk, n_successes,
                   n_consec_fails, idx, depth, consumed, recent, sim,
                   number, rolled, checks, mainvars>>

\* the batch is exhausted: the recursive call and its new batch, lines 67-73
Recurse ==
    /\ pc = "loop"
    /\ idx = chunk
    /\ consumed < MaxChecks
    /\ LET st == Carry(n_successes, n_consec_fails) IN
          /\ n_successes' = st.s
          /\ n_consec_fails' = st.f
    /\ depth' = depth + 1
    /\ idx' = 0
    /\ UNCHANGED <<dc, modifier, successes_required, chunk, pc, ret,
                   consumed, recent, sim, number, rolled, checks, mainvars>>

Next == CheckSuccess \/ CheckFailure \/ Recurse

Spec == Init /\ [][Next]_vars

\* the attempt under the scheduling of a running program: a step that can
\* be taken is eventually taken
LiveSpec == Init /\ [][Next]_vars /\ WF_vars(Next)

\* craft with a batch of any of the lengths of BatchSizes
InitBatch ==
    /\ chunk \in BatchSizes
    /\ InitCraft

SpecBatch == InitBatch /\ [][Next]_vars

-----------------------------------------------------------------------------
(* make_checks on its own *)

InitChecks ==
    /\ NoMain
    /\ dc \in (0 - MaxNegCheckDC)..MaxCheckDC
    /\ modifier \in (0 - MaxCheckModifier)..MaxCheckModifier
    /\ number \in 0..MaxNumber
    /\ rolled = <<>>
    /\ checks = <<>>
    /\ pc = "checks"
    /\ successes_required = 0
    /\ chunk = ROLL_CHUNK
    /\ n_successes = 0
    /\ n_consec_fails = 0
    /\ idx = 0
    /\ depth = 0
    /\ ret = "none"
    /\ consumed = 0
    /\ recent = <<>>
    /\ sim = [s |-> 0, f |-> 0, n |-> 0, ret |-> "none"]

\* a call make_checks(dc=dc, modifier=modifier, number=number): lines 16, 30
MakeChecks ==
    /\ pc = "checks"
    /\ \E a \in roll(D20, number) :
          /\ rolled' = a
          /\ checks' = make_checks(a, dc, modifier)
    /\ pc' = "checked"
    /\ UNCHANGED <<dc, modifier, successes_required, chunk, n_successes,
                   n_consec_fails, idx, depth, ret, consumed, recent, sim,
                   number, mainvars>>

NextChecks == MakeChecks

SpecChecks == InitChecks /\ [][NextChecks]_vars

-----------------------------------------------------------------------------
(* __main__: the experiment *)

MaxRepeats == 3

MaxNegRepeats == 1

\* successes_required of __main__ (line 79)
MAIN_REQUIRED == 8

\* the small values for every dc and modifier; for the dc and modifier of
\* __main__ also its successes_required and the smallest one that can
\* exhaust a batch
MainRequireds(d, m) ==
    ((0 - MaxNegRequired)..MaxRequired)
        \cup (IF d = 18 /\ m = 9
              THEN {MAIN_REQUIRED, (ROLL_CHUNK \div FAIL_LIMIT) + 1}
              ELSE {})

\* sum(repeated_craft): True counts 1, False counts 0
RECURSIVE Sum(_)
Sum(q) == IF q = <<>> THEN 0
          ELSE (IF Head(q) THEN 1 ELSE 0) + Sum(Tail(q))

\* the success percentage, the "1 -" forgotten
Percent_successes(q) == [num |-> 100 * Sum(q), den |-> Len(q)]

\* (1 - sum(q)/len(q)) * 100 as the fraction num/den, for len(q) > 0
Percent(q) == [num |-> 100 * (Len(q) - Sum(q)), den |-> Len(q)]

\* format(x, ".0f") for x = num/den >= 0: the nearest integer, a tie to the
\* even one
Format0f(x) ==
    LET fl == x.num \div x.den
        rm == x.num - fl * x.den
    IN  IF 2 * rm < x.den THEN fl
        ELSE IF 2 * rm > x.den THEN fl + 1
        ELSE IF fl % 2 = 0 THEN fl ELSE fl + 1

\* a call that keeps the counters the last call ended with
Defaults_stale(s, f) == [s |-> s, f |-> f]

\* the counters of a call that passes none: the defaults of lines 38-39
Defaults(s, f) == [s |-> 0, f |-> 0]

InitMain ==
    /\ dc \in DCs
    /\ modifier \in Modifiers
    /\ successes_required \in MainRequireds(dc, modifier)
    /\ n_repeats \in (0 - MaxNegRepeats)..MaxRepeats
    /\ repeated_craft = <<>>
    /\ mpc = "comprehension"
    /\ printed = <<>>
    /\ n_calls = 0
    /\ n_failures = 0
    /\ chunk = ROLL_CHUNK
    /\ pc = "idle"
    /\ n_successes = 0
    /\ n_consec_fails = 0
    /\ idx = 0
    /\ depth = 0
    /\ ret = "none"
    /\ consumed = 0
    /\ recent = <<>>
    /\ sim = FreshSim
    /\ number = 0
    /\ rolled = <<>>
    /\ checks = <<>>

\* the next element of range(n_repeats): the call of craft of line 83, up to
\* its first batch (lines 38-39, 53-56)
CallCraft ==
    /\ mpc = "comprehension"
    /\ pc = "idle"
    /\ Len(repeated_craft) < n_repeats
    /\ LET st == Defaults(n_successes, n_consec_fails) IN
          /\ n_successes' = st.s
          /\ n_consec_fails' = st.f
    /\ pc' = "loop"
    /\ idx' = 0
    /\ depth' = 0
    /\ ret' = "none"
    /\ consumed' = 0
    /\ recent' = <<>>
    /\ sim' = FreshSim
    /\ n_calls' = n_calls + 1
    /\ UNCHANGED <<dc, modifier, successes_required, chunk, number, rolled,
                   checks, n_repeats, repeated_craft, mpc, printed,
                   n_failures>>

\* craft has returned: its result becomes the next element of the list,
\* lines 82-85
CollectResult ==
    /\ mpc = "comprehension"
    /\ pc = "done"
    /\ repeated_craft' = Append(repeated_craft, ret = "True")
    /\ n_failures' = n_failures + (IF ret = "False" THEN 1 ELSE 0)
    /\ pc' = "idle"
    /\ UNCHANGED <<dc, modifier, successes_required, chunk, n_successes,
                   n_consec_fails, idx, depth, ret, consumed, recent, sim,
                   number, rolled, checks, n_repeats, mpc, printed, n_calls>>

\* range(n_repeats) is exhausted: line 86
PrintPercent ==
    /\ mpc = "comprehension"
    /\ pc = "idle"
    /\ Len(repeated_craft) >= n_repeats
    /\ IF Len(repeated_craft) = 0
       THEN mpc' = "ZeroDivisionError" /\ printed' = printed
       ELSE mpc' = "printed"
            /\ printed' = <<Format0f(Percent(repeated_craft))>>
    /\ UNCHANGED <<dc, modifier, successes_required, chunk, pc, n_successes,
                   n_consec_fails, idx, depth, ret, consumed, recent, sim,
                   number, rolled, checks, n_repeats, repeated_craft,
                   n_calls, n_failures>>

NextMain ==
    \/ CallCraft
    \/ CheckSuccess
    \/ CheckFailure
    \/ Recurse
    \/ CollectResult
    \/ PrintPercent

SpecMain == InitMain /\ [][NextMain]_vars

-----------------------------------------------------------------------------
(* craft at the dc and modifier of __main__, around the values of          *)
(* successes_required at which one more batch becomes possible             *)

DeepRequireds == {33, 34, 66, 67}

InitDeep ==
    /\ NoMain
    /\ dc = 18
    /\ modifier = 9
    /\ successes_required \in DeepRequireds
    /\ chunk = ROLL_CHUNK
    /\ pc = "loop"
    /\ n_successes = 0
    /\ n_consec_fails = 0
    /\ idx = 0
    /\ depth = 0
    /\ ret = "none"
    /\ consumed = 0
    /\ recent = <<>>
    /\ sim = FreshSim
    /\ number = 0
    /\ rolled = <<>>
    /\ checks = <<>>

SpecDeep ==
    /\ InitDeep
    /\ [][Next]_vars

-----------------------------------------------------------------------------
(* Types *)

TypeOK ==
    /\ pc \in {"loop", "done", "idle", "checks", "checked"}
    /\ ret \in {"none", "True", "False"}
    /\ pc = "done" => ret # "none"
    /\ pc \in {"loop", "checks", "checked"} => ret = "none"
    /\ mpc \in {"none", "comprehension", "printed", "ZeroDivisionError"}
    /\ Len(repeated_craft) <= n_calls
    /\ Len(printed) <= 1
    /\ n_successes \in Nat
    /\ n_consec_fails \in Nat
    /\ idx \in 0..chunk
    /\ consumed = depth * chunk + idx
    /\ Len(recent) <= 3

-----------------------------------------------------------------------------
(* Claims *)

IsCheck == consumed' = consumed + 1

LastResult(q) == q[Len(q)]

THREE_FAILS == <<FALSE, FALSE, FALSE>>

\* C1: with the default initial counters, n_consec_fails is 0, 1 or 2 while
\* the attempt is unresolved, every successful check sets it to 0, and
\* craft returns False exactly at the check that raises it to 3.
C1_ConsecFails ==
    /\ [](pc = "loop" => n_consec_fails \in 0..2)
    /\ [](ret = "False" <=> n_consec_fails = 3)
    /\ [][(IsCheck /\ LastResult(recent')) => n_consec_fails' = 0]_vars
    /\ [][(ret = "none" /\ ret' = "False")
            => (IsCheck /\ ~ LastResult(recent')
                /\ n_consec_fails = 2 /\ n_consec_fails' = 3)]_vars

\* the attempt failed after the counter had been reset by a success, in the
\* second batch
C1_Witness ==
    /\ ret = "False"
    /\ n_consec_fails = 3
    /\ n_successes > 0
    /\ depth > 0

\* C2: craft returns False only when the last three consumed checks are
\* failures, so a sequence of results without three consecutive failures
\* never yields False, whatever its number of failures and its batches.
C2_NoStreakNoFail == ret = "False" => recent = THREE_FAILS

\* an attempt that succeeded in its second batch after more than three
\* failures, none of them the third of a streak
C2_Witness ==
    /\ ret = "True"
    /\ depth > 0
    /\ consumed - n_successes > 3

\* C3: n_successes never decreases, craft returns True exactly at the check
\* at which it reaches successes_required, and while the attempt is
\* unresolved it is strictly below successes_required.
C3_SuccessCounter ==
    /\ [][n_successes' >= n_successes]_vars
    /\ [](pc = "loop" => n_successes < successes_required)
    /\ [](ret = "True" => n_successes = successes_required)
    /\ [][(ret = "none" /\ ret' = "True")
            => (IsCheck /\ LastResult(recent')
                /\ n_successes' = successes_required)]_vars

\* C3 for successes_required >= 1, where the code does what C3 says
C3_PositiveRequired ==
    /\ [][n_successes' >= n_successes]_vars
    /\ [](successes_required >= 1
            => /\ pc = "loop" => n_successes < successes_required
               /\ ret = "True" => n_successes = successes_required)
    /\ [][(successes_required >= 1 /\ ret = "none" /\ ret' = "True")
            => (IsCheck /\ LastResult(recent')
                /\ n_successes' = successes_required)]_vars

\* C4: for every batch length, craft returns the same outcome after the
\* same number of consumed checks as the loop without batches, and its
\* counters agree with that loop's after every check.
C4_BatchSizeUnobservable ==
    /\ sim.ret = ret
    /\ sim.n = consumed
    /\ sim.s = n_successes
    /\ sim.f = n_consec_fails

\* a streak of three failures that began in one batch of 100 and ended in
\* the next fails the attempt
C4_Witness ==
    /\ chunk = ROLL_CHUNK
    /\ ret = "False"
    /\ depth > 0
    /\ idx \in 1..2

C6_ImmediateSuccess ==
    successes_required <= 0 => (consumed = 0 /\ ret # "False")

\* C7: where every check fails (dc > modifier + 20), craft returns False
\* after exactly 3 checks, whatever successes_required is.
C7_AllFail ==
    AllFail(dc, modifier)
        => /\ consumed <= 3
           /\ ret # "True"
           /\ pc = "done" => (ret = "False" /\ consumed = 3)
           /\ consumed = 3 => pc = "done"

C7_Witness ==
    /\ AllFail(dc, modifier)
    /\ pc = "done"
    /\ consumed = 3
    /\ successes_required > ROLL_CHUNK \div FAIL_LIMIT

\* C8: where every check succeeds (dc <= modifier + 1), craft never returns
\* False and never counts a failure: its result is True for every
\* successes_required.
C8_AllSucceed ==
    AllSucceed(dc, modifier)
        => /\ ret # "False"
           /\ n_consec_fails = 0
           /\ pc = "done" => ret = "True"

C8_Witness ==
    /\ dc = modifier + 1
    /\ ret = "True"
    /\ successes_required > 1

\* C9: where every check succeeds and successes_required = R >= 1, craft
\* returns True having consumed exactly R checks, also for R > 100.
C9_ExactlyRChecks ==
    (AllSucceed(dc, modifier) /\ successes_required >= 1)
        => /\ consumed <= successes_required
           /\ pc = "done" => (ret = "True" /\ consumed = successes_required)
           /\ consumed = successes_required => pc = "done"

C9_Witness ==
    /\ dc = 11
    /\ modifier = 11
    /\ successes_required > ROLL_CHUNK
    /\ ret = "True"
    /\ consumed = successes_required

\* C10: every die outcome of roll(die=20) is in 1..20, and a check result
\* of make_checks is True exactly when die outcome + modifier >= dc.
C10_MeetsItBeatsIt ==
    pc = "checked"
        => /\ Len(rolled) = number
           /\ Len(checks) = number
           /\ \A i \in 1..number :
                 /\ rolled[i] \in 1..20
                 /\ checks[i] \in BOOLEAN
                 /\ checks[i] <=> ~ (rolled[i] + modifier < dc)

\* a modified roll equal to the DC succeeded, and one that is 1 less failed
C10_Witness ==
    /\ pc = "checked"
    /\ number = 2
    /\ rolled[1] + modifier = dc
    /\ checks[1]
    /\ rolled[2] + modifier = dc - 1
    /\ ~ checks[2]

\* C11: __main__ calls craft exactly n_repeats times, and the percentage it
\* prints is 100 * failures / n_repeats rounded to the nearest integer,
\* failures being the number of calls that returned False; it is in 0..100.
C11_FailurePercent ==
    /\ Len(repeated_craft) <= n_calls
    /\ n_calls <= Len(repeated_craft) + 1
    /\ n_repeats >= 0 => n_calls <= n_repeats
    /\ n_failures <= Len(repeated_craft)
    /\ mpc = "printed"
         => /\ n_calls = n_repeats
            /\ Len(repeated_craft) = n_repeats
            /\ Len(printed) = 1
            /\ printed[1] \in 0..100
            /\ 2 * (printed[1] * n_repeats - 100 * n_failures) <= n_repeats
            /\ 2 * (100 * n_failures - printed[1] * n_repeats) <= n_repeats

\* one failure in three attempts is printed as 33
C11_Witness ==
    /\ mpc = "printed"
    /\ n_repeats = 3
    /\ n_failures = 1
    /\ printed = <<33>>

\* C12: every call of craft made by __main__ starts with n_successes = 0,
\* n_consec_fails = 0 and a batch of its own, and runs as an attempt fed
\* with nothing but its own checks.
C12_FreshTrials ==
    /\ [][(n_calls' = n_calls + 1)
            => (/\ n_successes' = 0
                /\ n_consec_fails' = 0
                /\ idx' = 0
                /\ depth' = 0
                /\ ret' = "none")]_vars
    /\ [](pc \in {"loop", "done"}
            => (/\ sim.ret = ret
                /\ sim.s = n_successes
                /\ sim.f = n_consec_fails
                /\ sim.n = depth * chunk + idx))

\* the second attempt starts after the first one has failed, that is, has
\* ended with n_consec_fails = 3 in the middle of its batch
C12_Witness ==
    /\ n_calls = 2
    /\ repeated_craft = <<FALSE>>
    /\ pc = "loop"
    /\ consumed = 0
    /\ n_consec_fails = 0

\* C14: with n_repeats <= 0 __main__ calls craft not once and never gets to
\* the computation of the percentage.
C14_RejectsNoTrials ==
    n_repeats <= 0
        => /\ n_calls = 0
           /\ mpc # "ZeroDivisionError"
           /\ mpc # "printed"

\* C15: for successes_required = R >= 1 craft returns False exactly when
\* three consecutive failures come before the R-th success, and True at the
\* R-th success otherwise: an unresolved attempt has fewer than R successes
\* and no three failures at its end, a False has them at its end, a True
\* has a success at its end and n_successes = R.
C15_Outcome ==
    successes_required >= 1
        => /\ sim.s = n_successes
           /\ pc = "loop" => (recent # THREE_FAILS
                              /\ n_successes < successes_required)
           /\ ret = "False" => (recent = THREE_FAILS
                                /\ n_successes < successes_required)
           /\ ret = "True" => (LastResult(recent)
                               /\ n_successes = successes_required)

\* three failures in the second batch, one success short of the 34 required
C15_Witness ==
    /\ ret = "False"
    /\ successes_required = 34
    /\ n_successes = 33
    /\ depth = 1

\* C16: for successes_required = R >= 1 an attempt is resolved after at most
\* 3 * R checks, whatever the results are.
C16_AtMost3R ==
    successes_required >= 1
        => /\ consumed <= 3 * successes_required
           /\ pc = "loop" => consumed < 3 * successes_required

\* the bound is attained: 34 successes, each after two failures
C16_Witness ==
    /\ successes_required = 34
    /\ ret = "True"
    /\ consumed = 3 * successes_required

====
